---- MODULE Spec2Model ----
(***************************************************************************)
(* A model of drand-client-rs: the beacon verification engine              *)
(* (src/verify.rs) and the client with its round/time arithmetic           *)
(* (src/lib.rs).                                                           *)
(*                                                                         *)
(* Byte strings are sequences of bits.  The pairing-friendly curve of the  *)
(* energon library is replaced by a small concrete instance of the same    *)
(* algebra: both groups are the integers modulo the prime GroupOrder, the  *)
(* generator is 1 and the pairing is multiplication, so that               *)
(* e(sig, g) = e(H(m), pk) is the equation sig * 1 = H(m) * pk.  SHA-256   *)
(* and hash-to-curve are replaced by injective functions (no collisions).  *)
(* Unsigned 64-bit integers are scaled down to WordBits bits.              *)
(***************************************************************************)
EXTENDS Integers, Sequences, FiniteSets, TLC

VARIABLES op, chain_info, beacon, transport, time, round_number, lib_checked,
          pc, result, ok_round, ok_beacon, fetches, verifications

vars == <<op, chain_info, beacon, transport, time, round_number, lib_checked,
          pc, result, ok_round, ok_beacon, fetches, verifications>>

(***************************************************************************)
(* Bounds of the model.                                                    *)
(***************************************************************************)
\* width of the unsigned integers that stand for u64
WordBits == 4
\* longest previous_signature of a beacon
MaxPrevLen == 2
\* beacons handed to verify_beacon have rounds 0..MaxRound
MaxRound == 1
\* secret keys of the signers of the model: 1..NumSigners
NumSigners == 2
\* resolution of SystemTime: ticks per second
TicksPerSec == 2
\* genesis times 0..MaxGenesis, in seconds
MaxGenesis == 2
\* periods 0..MaxPeriod, in seconds
MaxPeriod == 2
\* the clock reads at most MaxSecs seconds after the epoch
MaxSecs == 6

(***************************************************************************)
(* Bit strings and fixed-width integers.                                   *)
(***************************************************************************)
RECURSIVE Pow2(_)
Pow2(n) == IF n = 0 THEN 1 ELSE 2 * Pow2(n - 1)

\* the value of a big-endian bit string
RECURSIVE Num(_)
Num(bits) ==
    IF bits = <<>> THEN 0
    ELSE 2 * Num(SubSeq(bits, 1, Len(bits) - 1)) + bits[Len(bits)]

\* v as a big-endian bit string of n bits
ToBits(v, n) == [i \in 1..n |-> (v \div Pow2(n - i)) % 2]

FlipBit(bits, i) == [bits EXCEPT ![i] = 1 - bits[i]]

U64Mod == Pow2(WordBits)

\* u64::to_be_bytes of a round number
to_be_bytes(round) == ToBits(round, WordBits)

\* Sha256::digest: an injective function of the input (reversed, complemented
\* and framed), so that no two inputs of the model collide
Sha256(bytes) ==
    <<1>> \o [i \in 1..Len(bytes) |-> 1 - bytes[Len(bytes) + 1 - i]] \o <<1>>

(***************************************************************************)
(* The groups.                                                             *)
(***************************************************************************)
\* bits of a coordinate: every digest of a message is below Pow2(XBits - 1)
XBits == MaxPrevLen + WordBits + 4

IsPrime(p) == p > 1 /\ \A d \in 2..(p - 1) : p % d # 0

\* the prime order of the groups G1 and G2: the least prime above every
\* value of HashToCurve
GroupOrder == CHOOSE p \in Pow2(XBits - 1)..Pow2(XBits) :
                 /\ IsPrime(p)
                 /\ \A r \in Pow2(XBits - 1)..(p - 1) : ~IsPrime(r)

OtherGroup(grp) == IF grp = "G1" THEN "G2" ELSE "G1"

\* length of a serialized point: two flag bits and the x coordinate; a point
\* of G2 carries one more coordinate bit
PointLen(grp) == IF grp = "G1" THEN XBits + 2 ELSE XBits + 3

\* an affine point: v is the discrete logarithm of a point of the group
Point(grp, inf, onc, v) == [grp |-> grp, infinity |-> inf, on_curve |-> onc, v |-> v]

Identity(grp) == Point(grp, TRUE, TRUE, 0)

\* the serialization of the group element v (0 is the identity): flag bits
\* <<infinity, sort>>, then the x coordinate; v and GroupOrder - v share x
Serialize(grp, v) ==
    LET x == IF v <= GroupOrder - v THEN v ELSE GroupOrder - v
        sort == IF v = 0 \/ v <= GroupOrder - v THEN 0 ELSE 1
        inf == IF v = 0 THEN 1 ELSE 0
        tail == IF grp = "G2" THEN <<0>> ELSE <<>>
    IN  <<inf, sort>> \o ToBits(x, XBits) \o tail

\* deserialize, reading the x coordinate without the sort flag that tells a
\* point from its negative
deserialize_sort_ignored(grp, bytes) ==
    IF Len(bytes) # PointLen(grp) THEN [ok |-> FALSE, pt |-> Identity(grp)]
    ELSE
    LET inf == bytes[1]
        sort == bytes[2]
        x == Num(SubSeq(bytes, 3, XBits + 2))
        c1 == IF grp = "G2" THEN bytes[XBits + 3] ELSE 0
    IN  IF inf = 1
        THEN [ok |-> (sort = 0 /\ x = 0 /\ c1 = 0), pt |-> Identity(grp)]
        ELSE IF x >= GroupOrder
        THEN [ok |-> FALSE, pt |-> Identity(grp)]
        ELSE IF x >= 1 /\ 2 * x < GroupOrder /\ c1 = 0
        THEN [ok |-> TRUE, pt |-> Point(grp, FALSE, TRUE, x)]
        ELSE [ok |-> ~lib_checked, pt |-> Point(grp, FALSE, FALSE, x)]

\* Affine::deserialize: the bytes of a point of the group, or an error.
\* Whether the library rejects an x coordinate with no point on the curve
\* here, or leaves that to is_on_curve, is lib_checked.
deserialize(grp, bytes) ==
    IF Len(bytes) # PointLen(grp) THEN [ok |-> FALSE, pt |-> Identity(grp)]
    ELSE
    LET inf == bytes[1]
        sort == bytes[2]
        x == Num(SubSeq(bytes, 3, XBits + 2))
        c1 == IF grp = "G2" THEN bytes[XBits + 3] ELSE 0
    IN  IF inf = 1
        THEN [ok |-> (sort = 0 /\ x = 0 /\ c1 = 0), pt |-> Identity(grp)]
        ELSE IF x >= GroupOrder
        THEN [ok |-> FALSE, pt |-> Identity(grp)]
        ELSE IF x >= 1 /\ 2 * x < GroupOrder /\ c1 = 0
        THEN [ok |-> TRUE,
              pt |-> Point(grp, FALSE, TRUE, IF sort = 1 THEN GroupOrder - x ELSE x)]
        ELSE [ok |-> ~lib_checked, pt |-> Point(grp, FALSE, FALSE, x)]

is_on_curve(pt) == pt.on_curve

is_identity(pt) == pt.infinity

(***************************************************************************)
(* The schemes.                                                            *)
(***************************************************************************)
SchemeIDs == {"PedersenBlsChained", "PedersenBlsUnchained", "UnchainedOnG1RFC9380"}

is_chained(scheme_id) == scheme_id = "PedersenBlsChained"

\* S::Key and the group of the signature: the short-signature scheme swaps them
KeyGroup(scheme_id) == IF scheme_id = "UnchainedOnG1RFC9380" THEN "G2" ELSE "G1"

SigGroup(scheme_id) == OtherGroup(KeyGroup(scheme_id))

\* S::Beacon::digest: the signed message
digest(scheme_id, previous_signature, round) ==
    IF is_chained(scheme_id)
    THEN Sha256(previous_signature \o to_be_bytes(round))
    ELSE Sha256(to_be_bytes(round))

\* the point of the signature group a message is hashed to: injective, never
\* the identity
HashToCurve(message) == Num(<<1>> \o message)

\* bls_verify, pairing the signature with the public key instead of the
\* generator
bls_verify_key_paired(public_key_point, signature_point, message) ==
    /\ signature_point.on_curve
    /\ public_key_point.on_curve
    /\ (signature_point.v * public_key_point.v) % GroupOrder
         = HashToCurve(message) % GroupOrder

\* S::bls_verify: the pairing equation e(sig, g) = e(H(m), pk)
bls_verify(public_key_point, signature_point, message) ==
    /\ signature_point.on_curve
    /\ public_key_point.on_curve
    /\ (signature_point.v * 1) % GroupOrder
         = (HashToCurve(message) * public_key_point.v) % GroupOrder

(***************************************************************************)
(* verify.rs                                                               *)
(***************************************************************************)
Beacon(round, rand, sig, prev) ==
    [round_number |-> round, randomness |-> rand, signature |-> sig,
     previous_signature |-> prev]

\* verify, without the test for the identity
verify_identity_accepted(scheme_id, public_key, b) ==
    IF b.signature = <<>> THEN "InvalidSignatureLength"
    ELSE IF is_chained(scheme_id) /\ b.previous_signature = <<>>
    THEN "ChainedBeaconNeedsPreviousSignature"
    ELSE
    LET signature_point == deserialize(SigGroup(scheme_id), b.signature)
        pubkey_point == deserialize(KeyGroup(scheme_id), public_key)
        message == digest(scheme_id, b.previous_signature, b.round_number)
    IN  IF ~signature_point.ok THEN "SignatureFailedVerification"
        ELSE IF ~pubkey_point.ok THEN "InvalidPublicKey"
        ELSE IF ~is_on_curve(pubkey_point.pt)
        THEN "InvalidPublicKey"
        ELSE IF ~bls_verify(pubkey_point.pt, signature_point.pt, message)
        THEN "SignatureFailedVerification"
        ELSE "Ok"

\* verify, with the test for the previous signature after the points are
\* deserialized
verify_previous_checked_late(scheme_id, public_key, b) ==
    IF b.signature = <<>> THEN "InvalidSignatureLength"
    ELSE
    LET signature_point == deserialize(SigGroup(scheme_id), b.signature)
        pubkey_point == deserialize(KeyGroup(scheme_id), public_key)
        message == digest(scheme_id, b.previous_signature, b.round_number)
    IN  IF ~signature_point.ok THEN "SignatureFailedVerification"
        ELSE IF ~pubkey_point.ok THEN "InvalidPublicKey"
        ELSE IF ~is_on_curve(pubkey_point.pt) \/ is_identity(pubkey_point.pt)
        THEN "InvalidPublicKey"
        ELSE IF is_chained(scheme_id) /\ b.previous_signature = <<>>
        THEN "ChainedBeaconNeedsPreviousSignature"
        ELSE IF ~bls_verify(pubkey_point.pt, signature_point.pt, message)
        THEN "SignatureFailedVerification"
        ELSE "Ok"

\* verify, with a message that leaves the round number out
verify_round_unbound(scheme_id, public_key, b) ==
    IF b.signature = <<>> THEN "InvalidSignatureLength"
    ELSE IF is_chained(scheme_id) /\ b.previous_signature = <<>>
    THEN "ChainedBeaconNeedsPreviousSignature"
    ELSE
    LET signature_point == deserialize(SigGroup(scheme_id), b.signature)
        pubkey_point == deserialize(KeyGroup(scheme_id), public_key)
        message == digest(scheme_id, b.previous_signature, 0)
    IN  IF ~signature_point.ok THEN "SignatureFailedVerification"
        ELSE IF ~pubkey_point.ok THEN "InvalidPublicKey"
        ELSE IF ~is_on_curve(pubkey_point.pt) \/ is_identity(pubkey_point.pt)
        THEN "InvalidPublicKey"
        ELSE IF ~bls_verify(pubkey_point.pt, signature_point.pt, message)
        THEN "SignatureFailedVerification"
        ELSE "Ok"

\* verify, asking every scheme for a previous signature
verify_previous_required(scheme_id, public_key, b) ==
    IF b.signature = <<>> THEN "InvalidSignatureLength"
    ELSE IF b.previous_signature = <<>>
    THEN "ChainedBeaconNeedsPreviousSignature"
    ELSE
    LET signature_point == deserialize(SigGroup(scheme_id), b.signature)
        pubkey_point == deserialize(KeyGroup(scheme_id), public_key)
        message == digest(scheme_id, b.previous_signature, b.round_number)
    IN  IF ~signature_point.ok THEN "SignatureFailedVerification"
        ELSE IF ~pubkey_point.ok THEN "InvalidPublicKey"
        ELSE IF ~is_on_curve(pubkey_point.pt) \/ is_identity(pubkey_point.pt)
        THEN "InvalidPublicKey"
        ELSE IF ~bls_verify(pubkey_point.pt, signature_point.pt, message)
        THEN "SignatureFailedVerification"
        ELSE "Ok"

\* verify, blaming the public key for a failed pairing check
verify_pairing_blames_key(scheme_id, public_key, b) ==
    IF b.signature = <<>> THEN "InvalidSignatureLength"
    ELSE IF is_chained(scheme_id) /\ b.previous_signature = <<>>
    THEN "ChainedBeaconNeedsPreviousSignature"
    ELSE
    LET signature_point == deserialize(SigGroup(scheme_id), b.signature)
        pubkey_point == deserialize(KeyGroup(scheme_id), public_key)
        message == digest(scheme_id, b.previous_signature, b.round_number)
    IN  IF ~signature_point.ok THEN "SignatureFailedVerification"
        ELSE IF ~pubkey_point.ok THEN "InvalidPublicKey"
        ELSE IF ~is_on_curve(pubkey_point.pt) \/ is_identity(pubkey_point.pt)
        THEN "InvalidPublicKey"
        ELSE IF ~bls_verify(pubkey_point.pt, signature_point.pt, message)
        THEN "InvalidPublicKey"
        ELSE "Ok"

\* verify, looking at the public key before the signature
verify_key_first(scheme_id, public_key, b) ==
    IF b.signature = <<>> THEN "InvalidSignatureLength"
    ELSE IF is_chained(scheme_id) /\ b.previous_signature = <<>>
    THEN "ChainedBeaconNeedsPreviousSignature"
    ELSE
    LET signature_point == deserialize(SigGroup(scheme_id), b.signature)
        pubkey_point == deserialize(KeyGroup(scheme_id), public_key)
        message == digest(scheme_id, b.previous_signature, b.round_number)
    IN  IF ~pubkey_point.ok THEN "InvalidPublicKey"
        ELSE IF ~is_on_curve(pubkey_point.pt) \/ is_identity(pubkey_point.pt)
        THEN "InvalidPublicKey"
        ELSE IF ~signature_point.ok THEN "SignatureFailedVerification"
        ELSE IF ~bls_verify(pubkey_point.pt, signature_point.pt, message)
        THEN "SignatureFailedVerification"
        ELSE "Ok"

\* verify, without the pairing check
verify_pairing_skipped(scheme_id, public_key, b) ==
    IF b.signature = <<>> THEN "InvalidSignatureLength"
    ELSE IF is_chained(scheme_id) /\ b.previous_signature = <<>>
    THEN "ChainedBeaconNeedsPreviousSignature"
    ELSE
    LET signature_point == deserialize(SigGroup(scheme_id), b.signature)
        pubkey_point == deserialize(KeyGroup(scheme_id), public_key)
    IN  IF ~signature_point.ok THEN "SignatureFailedVerification"
        ELSE IF ~pubkey_point.ok THEN "InvalidPublicKey"
        ELSE IF ~is_on_curve(pubkey_point.pt) \/ is_identity(pubkey_point.pt)
        THEN "InvalidPublicKey"
        ELSE "Ok"

\* verify, answering EmptyMessage for a beacon without signature
verify_empty_message(scheme_id, public_key, b) ==
    IF b.signature = <<>> THEN "EmptyMessage"
    ELSE IF is_chained(scheme_id) /\ b.previous_signature = <<>>
    THEN "ChainedBeaconNeedsPreviousSignature"
    ELSE
    LET signature_point == deserialize(SigGroup(scheme_id), b.signature)
        pubkey_point == deserialize(KeyGroup(scheme_id), public_key)
        message == digest(scheme_id, b.previous_signature, b.round_number)
    IN  IF ~signature_point.ok THEN "SignatureFailedVerification"
        ELSE IF ~pubkey_point.ok THEN "InvalidPublicKey"
        ELSE IF ~is_on_curve(pubkey_point.pt) \/ is_identity(pubkey_point.pt)
        THEN "InvalidPublicKey"
        ELSE IF ~bls_verify(pubkey_point.pt, signature_point.pt, message)
        THEN "SignatureFailedVerification"
        ELSE "Ok"

verify(scheme_id, public_key, b) ==
    IF b.signature = <<>> THEN "InvalidSignatureLength"
    ELSE IF is_chained(scheme_id) /\ b.previous_signature = <<>>
    THEN "ChainedBeaconNeedsPreviousSignature"
    ELSE
    LET signature_point == deserialize(SigGroup(scheme_id), b.signature)
        pubkey_point == deserialize(KeyGroup(scheme_id), public_key)
        message == digest(scheme_id, b.previous_signature, b.round_number)
    IN  IF ~signature_point.ok THEN "SignatureFailedVerification"
        ELSE IF ~pubkey_point.ok THEN "InvalidPublicKey"
        ELSE IF ~is_on_curve(pubkey_point.pt) \/ is_identity(pubkey_point.pt)
        THEN "InvalidPublicKey"
        ELSE IF ~bls_verify(pubkey_point.pt, signature_point.pt, message)
        THEN "SignatureFailedVerification"
        ELSE "Ok"

\* verify_beacon, without the comparison of the randomness
verify_beacon_randomness_unchecked(scheme_id, public_key, b) ==
    verify(scheme_id, public_key, b)

verify_beacon(scheme_id, public_key, b) ==
    IF Sha256(b.signature) # b.randomness THEN "InvalidRandomness"
    ELSE verify(scheme_id, public_key, b)

(***************************************************************************)
(* http.rs and lib.rs                                                      *)
(***************************************************************************)
NoBeacon == Beacon(0, <<>>, <<>>, <<>>)

\* what the server answers to one GET: send() may fail; otherwise a status
\* and a body.  A body is a JSON document or not; a JSON beacon may leave
\* out previous_signature
Response(status, valid_json, has_prev, fields) ==
    [status |-> status,
     body |-> [valid_json |-> valid_json, has_previous_signature |-> has_prev,
               fields |-> fields]]

\* HttpTransport::fetch
fetch(response) ==
    IF response.status = "SEND_FAILED" THEN [ok |-> FALSE, err |-> "Unexpected"]
    ELSE IF response.status = "OK" THEN [ok |-> TRUE, err |-> "None"]
    ELSE IF response.status = "NOT_FOUND" THEN [ok |-> FALSE, err |-> "NotFound"]
    ELSE [ok |-> FALSE, err |-> "Unexpected"]

\* serde_json::from_str::<Beacon>: previous_signature defaults to empty
from_str(body) ==
    IF ~body.valid_json THEN [ok |-> FALSE, beacon |-> NoBeacon]
    ELSE [ok |-> TRUE,
          beacon |-> IF body.has_previous_signature THEN body.fields
                     ELSE [body.fields EXCEPT !.previous_signature = <<>>]]

\* the value a call of the client returns, with the number of fetches and of
\* verifications it made
Return(tag, b, nfetch, nverify) ==
    [tag |-> tag, beacon |-> b, fetches |-> nfetch, verifications |-> nverify]

\* round_for_time, taking the instant of genesis for the first round
round_for_time_genesis_included(ci, t) ==
    IF t < 0 THEN [tag |-> "UnexpectedError", val |-> 0]
    ELSE
    LET epoch_seconds == t \div TicksPerSec
    IN  IF epoch_seconds < ci.genesis_time
        THEN [tag |-> "RoundBeforeGenesis", val |-> 0]
        ELSE IF ci.period_seconds = 0
        THEN [tag |-> "Panic", val |-> 0]
        ELSE [tag |-> "Ok",
              val |-> ((((epoch_seconds - ci.genesis_time) % U64Mod)
                            \div ci.period_seconds) + 1) % U64Mod]

\* round_for_time, counting the rounds from 0
round_for_time_from_zero(ci, t) ==
    IF t < 0 THEN [tag |-> "UnexpectedError", val |-> 0]
    ELSE
    LET epoch_seconds == t \div TicksPerSec
    IN  IF epoch_seconds <= ci.genesis_time
        THEN [tag |-> "RoundBeforeGenesis", val |-> 0]
        ELSE IF ci.period_seconds = 0
        THEN [tag |-> "Panic", val |-> 0]
        ELSE [tag |-> "Ok",
              val |-> (((epoch_seconds - ci.genesis_time) % U64Mod)
                           \div ci.period_seconds) % U64Mod]

\* round_for_time, counting the whole periods that ended before now
round_for_time_elapsed_periods(ci, t) ==
    IF t < 0 THEN [tag |-> "UnexpectedError", val |-> 0]
    ELSE
    LET epoch_seconds == t \div TicksPerSec
    IN  IF epoch_seconds <= ci.genesis_time
        THEN [tag |-> "RoundBeforeGenesis", val |-> 0]
        ELSE IF ci.period_seconds = 0
        THEN [tag |-> "Panic", val |-> 0]
        ELSE [tag |-> "Ok",
              val |-> (((epoch_seconds - ci.genesis_time - 1) % U64Mod)
                           \div ci.period_seconds) % U64Mod]

round_for_time(ci, t) ==
    IF t < 0 THEN [tag |-> "UnexpectedError", val |-> 0]
    ELSE
    LET epoch_seconds == t \div TicksPerSec
    IN  IF epoch_seconds <= ci.genesis_time
        THEN [tag |-> "RoundBeforeGenesis", val |-> 0]
        ELSE IF ci.period_seconds = 0
        THEN [tag |-> "Panic", val |-> 0]
        ELSE [tag |-> "Ok",
              val |-> ((((epoch_seconds - ci.genesis_time) % U64Mod)
                            \div ci.period_seconds) + 1) % U64Mod]

\* fetch_beacon_tag, fetching a second time when the first fetch fails
fetch_beacon_tag_retrying(ci, response) ==
    IF ~fetch(response).ok
    THEN IF ~fetch(response).ok THEN Return("NotResponding", NoBeacon, 2, 0)
         ELSE Return("Ok", from_str(response.body).beacon, 2, 1)
    ELSE
    LET parsed == from_str(response.body)
    IN  IF ~parsed.ok THEN Return("InvalidBeacon", NoBeacon, 1, 0)
        ELSE IF verify_beacon(ci.scheme_id, ci.public_key, parsed.beacon) # "Ok"
        THEN Return("FailedVerification", NoBeacon, 1, 1)
        ELSE Return("Ok", parsed.beacon, 1, 1)

\* fetch_beacon_tag, handing the parsed beacon on without verifying it
fetch_beacon_tag_unverified(ci, response) ==
    IF ~fetch(response).ok THEN Return("NotResponding", NoBeacon, 1, 0)
    ELSE
    LET parsed == from_str(response.body)
    IN  IF ~parsed.ok THEN Return("InvalidBeacon", NoBeacon, 1, 0)
        ELSE Return("Ok", parsed.beacon, 1, 0)

fetch_beacon_tag(ci, response) ==
    IF ~fetch(response).ok THEN Return("NotResponding", NoBeacon, 1, 0)
    ELSE
    LET parsed == from_str(response.body)
    IN  IF ~parsed.ok THEN Return("InvalidBeacon", NoBeacon, 1, 0)
        ELSE IF verify_beacon(ci.scheme_id, ci.public_key, parsed.beacon) # "Ok"
        THEN Return("FailedVerification", NoBeacon, 1, 1)
        ELSE Return("Ok", parsed.beacon, 1, 1)

\* latest_randomness, tolerating no round behind the expected one
latest_randomness_strict(ci, now, response) ==
    LET expected_round == round_for_time(ci, now)
    IN  IF expected_round.tag # "Ok"
        THEN Return(expected_round.tag, NoBeacon, 0, 0)
        ELSE
        LET fetched == fetch_beacon_tag(ci, response)
        IN  IF fetched.tag # "Ok" THEN fetched
            ELSE IF fetched.beacon.round_number < expected_round.val
            THEN [fetched EXCEPT !.tag = "InvalidBeacon", !.beacon = NoBeacon]
            ELSE fetched

\* latest_randomness, fetching the beacon before it computes the round
latest_randomness_fetch_first(ci, now, response) ==
    LET fetched == fetch_beacon_tag(ci, response)
        expected_round == round_for_time(ci, now)
    IN  IF fetched.tag # "Ok" THEN fetched
        ELSE IF expected_round.tag # "Ok"
        THEN [fetched EXCEPT !.tag = expected_round.tag, !.beacon = NoBeacon]
        ELSE IF fetched.beacon.round_number
                  < (expected_round.val - 1 + U64Mod) % U64Mod
        THEN [fetched EXCEPT !.tag = "InvalidBeacon", !.beacon = NoBeacon]
        ELSE fetched

latest_randomness(ci, now, response) ==
    LET expected_round == round_for_time(ci, now)
    IN  IF expected_round.tag # "Ok"
        THEN Return(expected_round.tag, NoBeacon, 0, 0)
        ELSE
        LET fetched == fetch_beacon_tag(ci, response)
        IN  IF fetched.tag # "Ok" THEN fetched
            ELSE IF fetched.beacon.round_number
                      < (expected_round.val - 1 + U64Mod) % U64Mod
            THEN [fetched EXCEPT !.tag = "InvalidBeacon", !.beacon = NoBeacon]
            ELSE fetched

\* randomness, accepting a beacon of a later round than the requested one
randomness_later_round_accepted(ci, n, response) ==
    IF n = 0 THEN Return("InvalidRound", NoBeacon, 0, 0)
    ELSE
    LET fetched == fetch_beacon_tag(ci, response)
    IN  IF fetched.tag # "Ok" THEN fetched
        ELSE IF fetched.beacon.round_number < n
        THEN [fetched EXCEPT !.tag = "InvalidBeacon", !.beacon = NoBeacon]
        ELSE fetched

\* randomness, testing the requested round only after the fetch
randomness_round_checked_late(ci, n, response) ==
    LET fetched == fetch_beacon_tag(ci, response)
    IN  IF n = 0
        THEN [fetched EXCEPT !.tag = "InvalidRound", !.beacon = NoBeacon]
        ELSE IF fetched.tag # "Ok" THEN fetched
        ELSE IF fetched.beacon.round_number # n
        THEN [fetched EXCEPT !.tag = "InvalidBeacon", !.beacon = NoBeacon]
        ELSE fetched

randomness(ci, n, response) ==
    IF n = 0 THEN Return("InvalidRound", NoBeacon, 0, 0)
    ELSE
    LET fetched == fetch_beacon_tag(ci, response)
    IN  IF fetched.tag # "Ok" THEN fetched
        ELSE IF fetched.beacon.round_number # n
        THEN [fetched EXCEPT !.tag = "InvalidBeacon", !.beacon = NoBeacon]
        ELSE fetched

(***************************************************************************)
(* The environment: the signers of the network, the beacons and keys a     *)
(* caller may pass, the answers of the server.                             *)
(***************************************************************************)
SecretKeys == 1..NumSigners

\* the public key of a signer: secret * generator, in the key group
PublicKeyOf(scheme_id, secret) ==
    Serialize(KeyGroup(scheme_id), (secret * 1) % GroupOrder)

\* the signature of a signer: secret * H(message), in the signature group
Sign(scheme_id, secret, previous_signature, round) ==
    Serialize(SigGroup(scheme_id),
              (secret * HashToCurve(digest(scheme_id, previous_signature, round)))
                  % GroupOrder)

\* the beacon a genuine signer publishes
GenuineBeacon(scheme_id, secret, previous_signature, round) ==
    LET sig == Sign(scheme_id, secret, previous_signature, round)
    IN  Beacon(round, Sha256(sig), sig, previous_signature)

\* the non-empty previous signatures of the model
PrevSigs == {[i \in 1..n |-> 1] : n \in 1..MaxPrevLen}

Rounds == 0..MaxRound

AllFlips(bytes) == {FlipBit(bytes, i) : i \in 1..Len(bytes)}

\* the signatures tried on a beacon with these fields: the genuine ones, one
\* of another round, every single-bit flip of a genuine one, the identity,
\* the empty string
SignatureInputs(scheme_id, previous_signature, round) ==
    {Sign(scheme_id, k, previous_signature, round) : k \in SecretKeys}
        \cup AllFlips(Sign(scheme_id, 1, previous_signature, round))
        \cup {Sign(scheme_id, 1, previous_signature, (round + 1) % (MaxRound + 1)),
              Serialize(SigGroup(scheme_id), 0),
              <<>>}

\* the public keys tried: the signers' keys, the identity, an x coordinate
\* off the curve, a malformed encoding, points of the other group, nothing
PublicKeyInputs(scheme_id) ==
    LET grp == KeyGroup(scheme_id)
    IN  {PublicKeyOf(scheme_id, k) : k \in SecretKeys}
            \cup {Serialize(grp, 0),
                  FlipBit(Serialize(grp, 1), 3),
                  FlipBit(Serialize(grp, 0), 2),
                  Serialize(OtherGroup(grp), 1),
                  Serialize(OtherGroup(grp), 0),
                  <<>>}

ChainInfo(scheme_id, public_key, genesis_time, period_seconds) ==
    [scheme_id |-> scheme_id, public_key |-> public_key,
     genesis_time |-> genesis_time, period_seconds |-> period_seconds]

NoResponse == Response("SEND_FAILED", FALSE, FALSE, NoBeacon)

\* the answers of the server to a client of the chain of signer 1: a failure,
\* a body that is no beacon, and for each round a genuine beacon, one signed
\* by another key and one with another randomness
Responses(scheme_id) ==
    {Response(st, FALSE, FALSE, NoBeacon) : st \in {"SEND_FAILED", "NOT_FOUND", "OTHER"}}
        \cup {Response("OK", FALSE, FALSE, NoBeacon)}
        \cup {Response("OK", TRUE, is_chained(scheme_id), b) :
                b \in UNION {
                    {GenuineBeacon(scheme_id, 1, <<1>>, r),
                     GenuineBeacon(scheme_id, 2, <<1>>, r),
                     [GenuineBeacon(scheme_id, 1, <<1>>, r)
                        EXCEPT !.randomness = Sha256(<<>>)]} : r \in 0..(MaxSecs + 1)}}

\* SystemTime::now(): ticks since the epoch, negative before it
Times == (-1)..(MaxSecs * TicksPerSec + TicksPerSec - 1)

(***************************************************************************)
(* Building a client: the chain info document of GET {base_url}/info.      *)
(***************************************************************************)
\* the chain info of a client that was not built
NoChainInfo == ChainInfo("None", <<>>, 0, 0)

\* the strings the server may give as scheme: the three of the network this
\* client knows, one of the network it does not know, near misses, nothing
SchemeStrings ==
    {"pedersen-bls-chained", "pedersen-bls-unchained", "bls-unchained-g1-rfc9380",
     "bls-unchained-on-g1", "Pedersen-BLS-Chained", "pedersen-bls-chained ",
     "pedersen-bls", "PedersenBlsChained", ""}

\* the answer of the server to GET /info: a status and a body; a body is
\* a JSON document with every field of ChainInfo well-formed, the scheme
\* set aside, or it is not
InfoResponse(status, valid_json, scheme, public_key, genesis_time, period) ==
    [status |-> status,
     body |-> [valid_json |-> valid_json, schemeID |-> scheme,
               public_key |-> public_key, genesis_time |-> genesis_time,
               period |-> period]]

InfoResponses ==
    {InfoResponse(st, FALSE, "", <<>>, 0, 0) :
        st \in {"SEND_FAILED", "NOT_FOUND", "OTHER"}}
        \cup {InfoResponse("OK", FALSE, str, <<>>, 0, 0) : str \in SchemeStrings}
        \cup {InfoResponse("OK", TRUE, str, Serialize("G1", 1), g, p) :
                str \in SchemeStrings, g \in 0..MaxGenesis, p \in 0..MaxPeriod}

\* SchemeID::deserialize, taking every unknown string for the chained scheme
SchemeID_deserialize_defaulting(str) ==
    IF str = "pedersen-bls-unchained"
    THEN [ok |-> TRUE, scheme_id |-> "PedersenBlsUnchained"]
    ELSE IF str = "bls-unchained-g1-rfc9380"
    THEN [ok |-> TRUE, scheme_id |-> "UnchainedOnG1RFC9380"]
    ELSE [ok |-> TRUE, scheme_id |-> "PedersenBlsChained"]

\* impl Deserialize for SchemeID
SchemeID_deserialize(str) ==
    IF str = "pedersen-bls-chained"
    THEN [ok |-> TRUE, scheme_id |-> "PedersenBlsChained"]
    ELSE IF str = "pedersen-bls-unchained"
    THEN [ok |-> TRUE, scheme_id |-> "PedersenBlsUnchained"]
    ELSE IF str = "bls-unchained-g1-rfc9380"
    THEN [ok |-> TRUE, scheme_id |-> "UnchainedOnG1RFC9380"]
    ELSE [ok |-> FALSE, scheme_id |-> "None"]

\* serde_json::from_str::<ChainInfo>: fails when a field fails
chain_info_from_str(body) ==
    LET scheme == SchemeID_deserialize(body.schemeID)
    IN  IF ~body.valid_json \/ ~scheme.ok
        THEN [ok |-> FALSE, chain_info |-> NoChainInfo]
        ELSE [ok |-> TRUE,
              chain_info |-> ChainInfo(scheme.scheme_id, body.public_key,
                                       body.genesis_time, body.period)]

fetch_chain_info(response) ==
    IF ~fetch(response).ok
    THEN [tag |-> "NotResponding", chain_info |-> NoChainInfo, fetches |-> 1]
    ELSE
    LET parsed == chain_info_from_str(response.body)
    IN  IF ~parsed.ok
        THEN [tag |-> "InvalidChainInfo", chain_info |-> NoChainInfo, fetches |-> 1]
        ELSE [tag |-> "Ok", chain_info |-> parsed.chain_info, fetches |-> 1]

\* new_http_client: the client is built around the chain info fetched, and is
\* not built when fetching fails
new_http_client(response) == fetch_chain_info(response)

(***************************************************************************)
(* The state machine: one call of one operation per behaviour.             *)
(***************************************************************************)
Idle ==
    /\ pc = "call"
    /\ result = "none"
    /\ ok_round = 0
    /\ ok_beacon = NoBeacon
    /\ fetches = 0
    /\ verifications = 0

InitVerifyBeacon ==
    /\ op = "verify_beacon"
    /\ \E s \in SchemeIDs, prev \in PrevSigs \cup {<<>>}, r \in Rounds :
         /\ \E pk \in PublicKeyInputs(s) : chain_info = ChainInfo(s, pk, 0, 1)
         /\ \E sig \in SignatureInputs(s, prev, r) :
              \E rand \in {Sha256(sig), Sha256(Sign(s, 1, prev, r))} :
                 beacon = Beacon(r, rand, sig, prev)
    /\ transport = NoResponse
    /\ time = 0
    /\ round_number = 0

InitRoundForTime ==
    /\ op = "round_for_time"
    /\ \E s \in SchemeIDs, g \in 0..MaxGenesis, p \in 0..MaxPeriod :
         chain_info = ChainInfo(s, PublicKeyOf(s, 1), g, p)
    /\ beacon = NoBeacon
    /\ transport = NoResponse
    /\ time \in Times
    /\ round_number = 0

InitLatestRandomness ==
    /\ op = "latest_randomness"
    /\ \E s \in SchemeIDs, g \in 0..MaxGenesis, p \in 0..MaxPeriod :
         /\ chain_info = ChainInfo(s, PublicKeyOf(s, 1), g, p)
         /\ transport \in Responses(s)
    /\ beacon = NoBeacon
    /\ time \in Times
    /\ round_number = 0

InitRandomness ==
    /\ op = "randomness"
    /\ \E s \in SchemeIDs :
         /\ chain_info = ChainInfo(s, PublicKeyOf(s, 1), 0, 1)
         /\ transport \in Responses(s)
    /\ beacon = NoBeacon
    /\ time = 0
    /\ round_number \in 0..(MaxSecs + 1)

\* before new_http_client there is no client: chain_info is what the client
\* will hold once it is built
InitNewHttpClient ==
    /\ op = "new_http_client"
    /\ chain_info = NoChainInfo
    /\ transport \in InfoResponses
    /\ beacon = NoBeacon
    /\ time = 0
    /\ round_number = 0

Init ==
    /\ lib_checked \in BOOLEAN
    /\ Idle
    /\ \/ InitVerifyBeacon
       \/ InitRoundForTime
       \/ InitLatestRandomness
       \/ InitRandomness
       \/ InitNewHttpClient

VerifyBeaconCall ==
    /\ pc = "call" /\ op = "verify_beacon"
    /\ result' = verify_beacon(chain_info.scheme_id, chain_info.public_key, beacon)
    /\ pc' = "done"
    /\ verifications' = 1
    /\ UNCHANGED <<op, chain_info, beacon, transport, time, round_number,
                   lib_checked, ok_round, ok_beacon, fetches>>

RoundForTimeCall ==
    /\ pc = "call" /\ op = "round_for_time"
    /\ LET r == round_for_time(chain_info, time)
       IN  /\ result' = r.tag
           /\ ok_round' = r.val
    /\ pc' = "done"
    /\ UNCHANGED <<op, chain_info, beacon, transport, time, round_number,
                   lib_checked, ok_beacon, fetches, verifications>>

LatestRandomnessCall ==
    /\ pc = "call" /\ op = "latest_randomness"
    /\ LET r == latest_randomness(chain_info, time, transport)
       IN  /\ result' = r.tag
           /\ ok_beacon' = r.beacon
           /\ fetches' = r.fetches
           /\ verifications' = r.verifications
    /\ pc' = "done"
    /\ UNCHANGED <<op, chain_info, beacon, transport, time, round_number,
                   lib_checked, ok_round>>

RandomnessCall ==
    /\ pc = "call" /\ op = "randomness"
    /\ LET r == randomness(chain_info, round_number, transport)
       IN  /\ result' = r.tag
           /\ ok_beacon' = r.beacon
           /\ fetches' = r.fetches
           /\ verifications' = r.verifications
    /\ pc' = "done"
    /\ UNCHANGED <<op, chain_info, beacon, transport, time, round_number,
                   lib_checked, ok_round>>

NewHttpClientCall ==
    /\ pc = "call" /\ op = "new_http_client"
    /\ LET r == new_http_client(transport)
       IN  /\ result' = r.tag
           /\ chain_info' = r.chain_info
           /\ fetches' = r.fetches
    /\ pc' = "done"
    /\ UNCHANGED <<op, beacon, transport, time, round_number, lib_checked,
                   ok_round, ok_beacon, verifications>>

Next ==
    \/ VerifyBeaconCall
    \/ RoundForTimeCall
    \/ LatestRandomnessCall
    \/ RandomnessCall
    \/ NewHttpClientCall

Spec == Init /\ [][Next]_vars

(***************************************************************************)
(* Properties of verify_beacon.                                            *)
(***************************************************************************)
Verified == pc = "done" /\ op = "verify_beacon"

\* the serializations of the points of a group other than the identity
OnCurveG1 == {Serialize("G1", v) : v \in 1..(GroupOrder - 1)}

OnCurveG2 == {Serialize("G2", v) : v \in 1..(GroupOrder - 1)}

\* the public key is the serialization of a point of the key group of the
\* scheme that is on the curve and is not the identity
UsableKey ==
    IF KeyGroup(chain_info.scheme_id) = "G1"
    THEN chain_info.public_key \in OnCurveG1
    ELSE chain_info.public_key \in OnCurveG2

RandomnessMatches == beacon.randomness = Sha256(beacon.signature)

PreviousPresent ==
    is_chained(chain_info.scheme_id) => beacon.previous_signature # <<>>

\* C1: whenever SHA-256(signature) differs from randomness, verify_beacon
\* returns InvalidRandomness, whatever the scheme, the key, the signature and
\* the previous signature are.
C1_InvalidRandomness ==
    (Verified /\ ~RandomnessMatches) => result = "InvalidRandomness"

\* C1 witness: a randomness mismatch on a beacon with an empty signature and
\* an empty public key was answered InvalidRandomness.
C1_Witness ==
    /\ Verified
    /\ ~RandomnessMatches
    /\ beacon.signature = <<>>
    /\ chain_info.public_key = <<>>
    /\ result = "InvalidRandomness"

\* C2: when the randomness matches, the signature deserializes and the
\* previous signature is present where the scheme needs it, a public key that
\* is the identity, off the curve or not the encoding of a point gives
\* InvalidPublicKey, for every scheme.
C2_InvalidPublicKey ==
    (/\ Verified
     /\ RandomnessMatches
     /\ deserialize(SigGroup(chain_info.scheme_id), beacon.signature).ok
     /\ PreviousPresent
     /\ ~UsableKey)
        => result = "InvalidPublicKey"

\* C2 witness: the identity of the key group as public key, with a genuine
\* beacon of signer 1, was answered InvalidPublicKey.
C2_Witness ==
    /\ Verified
    /\ chain_info.public_key = Serialize(KeyGroup(chain_info.scheme_id), 0)
    /\ PreviousPresent
    /\ beacon = GenuineBeacon(chain_info.scheme_id, 1,
                              beacon.previous_signature, beacon.round_number)
    /\ result = "InvalidPublicKey"

\* C3 as stated: every chained beacon with an empty previous signature gives
\* ChainedBeaconNeedsPreviousSignature.
C3_Original ==
    (/\ Verified
     /\ is_chained(chain_info.scheme_id)
     /\ beacon.previous_signature = <<>>)
        => result = "ChainedBeaconNeedsPreviousSignature"

\* C3 amended: a chained beacon with an empty previous signature, whose
\* randomness is SHA-256 of its signature and whose signature is not empty,
\* gives ChainedBeaconNeedsPreviousSignature, whatever the public key is.
C3_NeedsPreviousSignature ==
    (/\ Verified
     /\ is_chained(chain_info.scheme_id)
     /\ beacon.previous_signature = <<>>
     /\ RandomnessMatches
     /\ beacon.signature # <<>>)
        => result = "ChainedBeaconNeedsPreviousSignature"

\* C3 witness: such a beacon, with a signature that does not deserialize and
\* an empty public key, was answered ChainedBeaconNeedsPreviousSignature.
C3_Witness ==
    /\ Verified
    /\ is_chained(chain_info.scheme_id)
    /\ beacon.previous_signature = <<>>
    /\ RandomnessMatches
    /\ beacon.signature # <<>>
    /\ ~deserialize(SigGroup(chain_info.scheme_id), beacon.signature).ok
    /\ chain_info.public_key = <<>>
    /\ result = "ChainedBeaconNeedsPreviousSignature"

\* the public keys of the signers
SignerKeys == {PublicKeyOf(chain_info.scheme_id, k) : k \in SecretKeys}

\* the beacon is a genuine beacon of signer k, verified under the key of k,
\* but for bit i of its signature, which is flipped
SignatureFlipped(k, i) ==
    /\ chain_info.public_key = PublicKeyOf(chain_info.scheme_id, k)
    /\ PreviousPresent
    /\ i \in 1..Len(beacon.signature)
    /\ FlipBit(beacon.signature, i)
         = Sign(chain_info.scheme_id, k, beacon.previous_signature,
                beacon.round_number)

\* the randomness is the one of the genuine beacon, left as it was
RandomnessKept(i) == beacon.randomness = Sha256(FlipBit(beacon.signature, i))

\* C4 as stated: a single flipped bit in the signature of a valid beacon
\* gives SignatureFailedVerification.
C4_Original ==
    Verified
        => \A i \in 1..Len(beacon.signature), k \in SecretKeys :
             (RandomnessKept(i) /\ SignatureFlipped(k, i))
                => result = "SignatureFailedVerification"

\* C4 amended: a single flipped bit in the signature of a valid beacon never
\* gives Ok: it gives InvalidRandomness when the randomness is left as it
\* was, and SignatureFailedVerification when the randomness is recomputed as
\* SHA-256 of the flipped signature.
C4_BitFlipRejected ==
    (Verified /\ chain_info.public_key \in SignerKeys)
        => \A k \in SecretKeys, i \in 1..Len(beacon.signature) :
             SignatureFlipped(k, i)
                => /\ result # "Ok"
                   /\ RandomnessKept(i) => result = "InvalidRandomness"
                   /\ RandomnessMatches => result = "SignatureFailedVerification"

\* C4 witness: the sort flag (bit 2) of a genuine signature was flipped, which
\* gives the encoding of another point of the curve, the randomness was
\* recomputed, and the answer was SignatureFailedVerification.
C4_Witness ==
    /\ Verified
    /\ SignatureFlipped(1, 2)
    /\ RandomnessMatches
    /\ deserialize(SigGroup(chain_info.scheme_id), beacon.signature).ok
    /\ result = "SignatureFailedVerification"

\* the beacon is the one signer k publishes, verified under the key of k
Genuine(k) ==
    /\ chain_info.public_key = PublicKeyOf(chain_info.scheme_id, k)
    /\ PreviousPresent
    /\ beacon = GenuineBeacon(chain_info.scheme_id, k,
                              beacon.previous_signature, beacon.round_number)

\* C5: for each scheme, the beacon of a genuine signer verifies under the
\* public key of that signer.
C5_GenuineVerifies ==
    Verified => \A k \in SecretKeys : Genuine(k) => result = "Ok"

\* C5 witness: a genuine beacon of the scheme with swapped groups, signed
\* by signer 2 for round 1, was answered Ok.
C5_Witness ==
    /\ Verified
    /\ chain_info.scheme_id = "UnchainedOnG1RFC9380"
    /\ Genuine(2)
    /\ beacon.round_number = 1
    /\ result = "Ok"

(***************************************************************************)
(* Properties of round_for_time and of the client.                         *)
(***************************************************************************)
\* the time in Unix seconds, for a time that is not before the epoch
UnixSeconds == time \div TicksPerSec

\* the typed errors of the client
DrandClientErrors ==
    {"InvalidRound", "InvalidBeacon", "FailedVerification", "InvalidChainInfo",
     "NotResponding", "RoundBeforeGenesis", "UnexpectedError"}

C7_RoundFormula ==
    (/\ pc = "done" /\ op = "round_for_time"
     /\ time >= 0
     /\ chain_info.period_seconds > 0
     /\ UnixSeconds > chain_info.genesis_time)
        => /\ result = "Ok"
           /\ \E q \in 0..MaxSecs :
                /\ q * chain_info.period_seconds
                     <= UnixSeconds - chain_info.genesis_time
                /\ UnixSeconds - chain_info.genesis_time
                     < (q + 1) * chain_info.period_seconds
                /\ ok_round = q + 1

\* C7 witness: one period of two seconds after genesis the answer was round 2.
C7_Witness ==
    /\ pc = "done" /\ op = "round_for_time"
    /\ chain_info.period_seconds = 2
    /\ UnixSeconds = chain_info.genesis_time + chain_info.period_seconds
    /\ result = "Ok"
    /\ ok_round = 2

\* C8: with period_seconds = 0, a call of round_for_time or of
\* latest_randomness ends in an error value of the client, never in a
\* division by zero.
C8_ZeroPeriodRejected ==
    (/\ pc = "done"
     /\ op \in {"round_for_time", "latest_randomness"}
     /\ chain_info.period_seconds = 0)
        => result \in DrandClientErrors

\* the server answered with the beacon signer 1 publishes for round r, which
\* passes verification under the key of the chain
FetchedGenuine(r) ==
    /\ transport.status = "OK"
    /\ transport.body.valid_json
    /\ transport.body.fields
         = GenuineBeacon(chain_info.scheme_id, 1, <<1>>, r)

\* the round expected at the time of the call, when there is one
ExpectedRound(e) ==
    /\ time >= 0
    /\ chain_info.period_seconds > 0
    /\ UnixSeconds > chain_info.genesis_time
    /\ (e - 1) * chain_info.period_seconds
         <= UnixSeconds - chain_info.genesis_time
    /\ UnixSeconds - chain_info.genesis_time < e * chain_info.period_seconds

\* C9: latest_randomness returns a fetched and verified beacon when its round
\* is at least expected - 1, and InvalidBeacon when it is less.
C9_LatestTolerance ==
    (pc = "done" /\ op = "latest_randomness")
        => LET r == transport.body.fields.round_number
           IN  \A e \in 1..(MaxSecs + 1) :
                 (ExpectedRound(e) /\ FetchedGenuine(r))
                    => /\ r >= e - 1
                         => (result = "Ok" /\ ok_beacon.round_number = r)
                       /\ r < e - 1 => result = "InvalidBeacon"

\* C9 witness: a beacon one round behind the expected round 3 was returned.
C9_Witness ==
    /\ pc = "done" /\ op = "latest_randomness"
    /\ FetchedGenuine(2)
    /\ ExpectedRound(3)
    /\ result = "Ok"
    /\ ok_beacon.round_number = 2

\* C10 as stated: randomness(n), n > 0, returns InvalidBeacon whenever the
\* round of the fetched beacon differs from n.
C10_Original ==
    (/\ pc = "done" /\ op = "randomness"
     /\ round_number > 0
     /\ transport.status = "OK"
     /\ transport.body.valid_json
     /\ transport.body.fields.round_number # round_number)
        => result = "InvalidBeacon"

\* C10 amended: randomness(n), n > 0, returns InvalidBeacon whenever the
\* fetched beacon passes verification and its round differs from n (a beacon
\* that fails verification gives FailedVerification, whatever its round), and
\* it returns a beacon only when the round of that beacon is n.
C10_RoundMismatch ==
    (pc = "done" /\ op = "randomness" /\ round_number > 0)
        => LET r == transport.body.fields.round_number
           IN  /\ (r # round_number /\ FetchedGenuine(r))
                    => result = "InvalidBeacon"
               /\ result = "Ok"
                    => (ok_beacon.round_number = round_number /\ r = round_number)

\* C10 witness: round 2 was requested, the genuine beacon of round 4 was
\* fetched, and the answer was InvalidBeacon.
C10_Witness ==
    /\ pc = "done" /\ op = "randomness"
    /\ round_number = 2
    /\ FetchedGenuine(4)
    /\ result = "InvalidBeacon"

\* C11: randomness(0) returns InvalidRound, and neither fetches from the
\* transport nor verifies anything on the way.
C11_RoundZeroRejected ==
    (pc = "done" /\ op = "randomness" /\ round_number = 0)
        => /\ result = "InvalidRound"
           /\ fetches = 0
           /\ verifications = 0
           /\ ok_beacon = NoBeacon

\* C11 witness: round 0 was requested from a server that would have answered
\* with the genuine beacon of round 0, and the answer was InvalidRound.
C11_Witness ==
    /\ pc = "done" /\ op = "randomness"
    /\ round_number = 0
    /\ FetchedGenuine(0)
    /\ result = "InvalidRound"
    /\ fetches = 0

(***************************************************************************)
(* What the verdict of verify_beacon depends on.                           *)
(***************************************************************************)
\* the beacon under verification, with another round number
WithRound(r) == [beacon EXCEPT !.round_number = r]

\* C12: when a beacon verifies under a key, the beacon that differs from it
\* only by its round number is answered SignatureFailedVerification, for
\* each scheme.
C12_RoundBound ==
    Verified
        => \A r \in Rounds \ {beacon.round_number} :
             verify_beacon(chain_info.scheme_id, chain_info.public_key,
                           WithRound(r)) = "Ok"
                => result = "SignatureFailedVerification"

\* C12 witness: for each scheme, the genuine beacon of signer 1 for round 1
\* was presented as a beacon of round 0 and answered
\* SignatureFailedVerification.
C12_Witness ==
    /\ Verified
    /\ beacon.round_number = 0
    /\ chain_info.public_key = PublicKeyOf(chain_info.scheme_id, 1)
    /\ PreviousPresent
    /\ WithRound(1) = GenuineBeacon(chain_info.scheme_id, 1,
                                    beacon.previous_signature, 1)
    /\ result = "SignatureFailedVerification"

\* the beacon under verification, with another previous signature
WithPrevious(prev) == [beacon EXCEPT !.previous_signature = prev]

\* C13: for the two unchained schemes, a beacon that differs from the
\* verified one only by its previous signature, empty or not, gets the
\* verdict the verified one got.
C13_PreviousIgnored ==
    (Verified /\ ~is_chained(chain_info.scheme_id))
        => \A prev \in PrevSigs \cup {<<>>} :
             verify_beacon(chain_info.scheme_id, chain_info.public_key,
                           WithPrevious(prev)) = result

\* C13 witness: a genuine unchained beacon that carries a previous signature
\* was answered Ok, as it is without one.
C13_Witness ==
    /\ Verified
    /\ ~is_chained(chain_info.scheme_id)
    /\ beacon.previous_signature # <<>>
    /\ chain_info.public_key = PublicKeyOf(chain_info.scheme_id, 1)
    /\ WithPrevious(<<>>)
         = GenuineBeacon(chain_info.scheme_id, 1, <<>>, beacon.round_number)
    /\ result = "Ok"

\* the beacon is the one signer k publishes, whatever the key it is verified
\* under
SignedBy(k) ==
    /\ PreviousPresent
    /\ beacon = GenuineBeacon(chain_info.scheme_id, k,
                              beacon.previous_signature, beacon.round_number)

\* C14: a genuine beacon verified under a public key that is an on-curve,
\* non-identity point of the key group of the scheme, but not the key of the
\* signer, is answered SignatureFailedVerification and not InvalidPublicKey.
C14_WrongKey ==
    (Verified /\ UsableKey)
        => \A k \in SecretKeys :
             (SignedBy(k)
                /\ chain_info.public_key # PublicKeyOf(chain_info.scheme_id, k))
                => result = "SignatureFailedVerification"

\* C14 witness: the genuine beacon of signer 1 was verified under the key of
\* signer 2 and answered SignatureFailedVerification.
C14_Witness ==
    /\ Verified
    /\ SignedBy(1)
    /\ chain_info.public_key = PublicKeyOf(chain_info.scheme_id, 2)
    /\ result = "SignatureFailedVerification"

(***************************************************************************)
(* Properties of the construction of a client.                             *)
(***************************************************************************)
\* the chain info document arrived and all its fields but the scheme are
\* well-formed
InfoFetched ==
    /\ pc = "done" /\ op = "new_http_client"
    /\ transport.status = "OK"
    /\ transport.body.valid_json

Fetched == pc = "done" /\ op \in {"randomness", "latest_randomness"}

\* the beacon in the body of the answer, when the body is one
ParsedBeacon == from_str(transport.body).beacon

\* C17: a call of randomness or of latest_randomness fetches at most once;
\* when it has fetched, a failed fetch ends it with NotResponding, a body that
\* is no beacon with InvalidBeacon, a beacon that fails verification with
\* FailedVerification, and a verified beacon of a round other than the one
\* asked of randomness with InvalidBeacon; a call that ends with an error
\* hands out no beacon, and a call that ends well hands out the one fetched.
C17_NoRetry ==
    Fetched
        => /\ fetches <= 1
           /\ result # "Ok" => ok_beacon = NoBeacon
           /\ fetches = 1
                => /\ result \in DrandClientErrors \cup {"Ok"}
                   /\ transport.status # "OK" => result = "NotResponding"
                   /\ (transport.status = "OK" /\ ~transport.body.valid_json)
                        => result = "InvalidBeacon"
                   /\ (transport.status = "OK" /\ transport.body.valid_json)
                        => LET verdict ==
                                   verify_beacon(chain_info.scheme_id,
                                                 chain_info.public_key, ParsedBeacon)
                           IN  /\ verdict # "Ok" => result = "FailedVerification"
                               /\ verdict = "Ok" => result \in {"Ok", "InvalidBeacon"}
                               /\ (/\ verdict = "Ok"
                                   /\ op = "randomness"
                                   /\ ParsedBeacon.round_number # round_number)
                                    => result = "InvalidBeacon"
                               /\ result = "Ok" => ok_beacon = ParsedBeacon

\* C17 witness: latest_randomness met a server that answered 404; it fetched
\* once and ended with NotResponding.
C17_Witness ==
    /\ Fetched
    /\ op = "latest_randomness"
    /\ transport.status = "NOT_FOUND"
    /\ fetches = 1
    /\ result = "NotResponding"

(***************************************************************************)
(* The verdicts of verify_beacon.                                          *)
(***************************************************************************)
\* the checks of verify, on the beacon and the key under verification
SignaturePresent == beacon.signature # <<>>

SignaturePoint == deserialize(SigGroup(chain_info.scheme_id), beacon.signature)

KeyPoint == deserialize(KeyGroup(chain_info.scheme_id), chain_info.public_key)

KeyOnCurve == is_on_curve(KeyPoint.pt) /\ ~is_identity(KeyPoint.pt)

PairingHolds ==
    bls_verify(KeyPoint.pt, SignaturePoint.pt,
               digest(chain_info.scheme_id, beacon.previous_signature,
                      beacon.round_number))

\* C18: the verdict is the error of the first check that fails, in the order
\* randomness, empty signature, previous signature of a chained beacon,
\* signature point, public key point, public key on the curve and not the
\* identity, pairing.
C18_FirstFailure ==
    Verified
        => /\ ~RandomnessMatches => result = "InvalidRandomness"
           /\ (RandomnessMatches /\ ~SignaturePresent)
                => result = "InvalidSignatureLength"
           /\ (RandomnessMatches /\ SignaturePresent /\ ~PreviousPresent)
                => result = "ChainedBeaconNeedsPreviousSignature"
           /\ (/\ RandomnessMatches /\ SignaturePresent /\ PreviousPresent
               /\ ~SignaturePoint.ok)
                => result = "SignatureFailedVerification"
           /\ (/\ RandomnessMatches /\ SignaturePresent /\ PreviousPresent
               /\ SignaturePoint.ok /\ ~KeyPoint.ok)
                => result = "InvalidPublicKey"
           /\ (/\ RandomnessMatches /\ SignaturePresent /\ PreviousPresent
               /\ SignaturePoint.ok /\ KeyPoint.ok /\ ~KeyOnCurve)
                => result = "InvalidPublicKey"
           /\ (/\ RandomnessMatches /\ SignaturePresent /\ PreviousPresent
               /\ SignaturePoint.ok /\ KeyPoint.ok /\ KeyOnCurve
               /\ ~PairingHolds)
                => result = "SignatureFailedVerification"

\* C18 witness: a signature that is not the encoding of a point and a public
\* key that is the identity: the answer was the error of the signature,
\* which is checked first.
C18_Witness ==
    /\ Verified
    /\ RandomnessMatches /\ SignaturePresent /\ PreviousPresent
    /\ ~SignaturePoint.ok
    /\ KeyPoint.ok /\ ~KeyOnCurve
    /\ result = "SignatureFailedVerification"

\* C19: verify_beacon answers Ok only if the randomness is SHA-256 of the
\* signature, the signature is not empty and is the encoding of a point of
\* the signature group, the previous signature is not empty when the scheme
\* is chained, the public key is the encoding of a point of the key group
\* that is on the curve and is not the identity, and the pairing check of
\* the message of the scheme for (previous_signature, round_number) succeeds.
C19_OkOnlyIf ==
    (Verified /\ result = "Ok")
        => /\ RandomnessMatches
           /\ SignaturePresent
           /\ SignaturePoint.ok
           /\ PreviousPresent
           /\ KeyPoint.ok
           /\ KeyOnCurve
           /\ UsableKey
           /\ PairingHolds

\* C19 witness: a chained beacon of round 0 with a previous signature of
\* full length, signed by signer 1, was answered Ok.
C19_Witness ==
    /\ Verified
    /\ result = "Ok"
    /\ is_chained(chain_info.scheme_id)
    /\ Len(beacon.previous_signature) = MaxPrevLen
    /\ beacon.round_number = 0
    /\ Genuine(1)

\* the variants of VerificationError
VerificationErrors ==
    {"ChainedBeaconNeedsPreviousSignature", "InvalidSignatureLength",
     "InvalidPublicKey", "EmptyMessage", "SignatureFailedVerification",
     "InvalidRandomness"}

\* C20: every call of verify_beacon ends with Ok or with one of
\* InvalidRandomness, InvalidSignatureLength,
\* ChainedBeaconNeedsPreviousSignature, InvalidPublicKey and
\* SignatureFailedVerification; EmptyMessage is never the answer.
C20_Verdicts ==
    Verified
        => /\ result \in {"Ok"} \cup (VerificationErrors \ {"EmptyMessage"})
           /\ result # "EmptyMessage"

\* C20 witness: a beacon with an empty signature, an empty previous
\* signature and an empty public key, the nearest there is to an empty
\* message, was answered InvalidSignatureLength.
C20_Witness ==
    /\ Verified
    /\ RandomnessMatches
    /\ beacon.signature = <<>>
    /\ beacon.previous_signature = <<>>
    /\ chain_info.public_key = <<>>
    /\ result = "InvalidSignatureLength"

(***************************************************************************)
(* What the client hands out, and when it fetches.                         *)
(***************************************************************************)
\* the verdict of verify_beacon on the beacon of the body, under the scheme
\* and the public key the client holds
ClientVerdict ==
    verify_beacon(chain_info.scheme_id, chain_info.public_key, ParsedBeacon)

\* C21: a beacon returned by randomness or latest_randomness is the beacon
\* parsed from the body of the one fetch made, was verified once, passes
\* verify_beacon under the scheme and the key of the client, and so carries
\* the signature of the holder of that key (signer 1) on its round; a fetched
\* beacon that fails verification is answered FailedVerification, whatever
\* its round is.
C21_OnlyVerified ==
    Fetched
        => /\ result = "Ok"
                => /\ fetches = 1
                   /\ verifications = 1
                   /\ transport.status = "OK"
                   /\ transport.body.valid_json
                   /\ ok_beacon = ParsedBeacon
                   /\ ClientVerdict = "Ok"
                   /\ ok_beacon.randomness = Sha256(ok_beacon.signature)
                   /\ ok_beacon.signature
                        = Sign(chain_info.scheme_id, 1,
                               ok_beacon.previous_signature,
                               ok_beacon.round_number)
           /\ (/\ fetches = 1
               /\ transport.status = "OK"
               /\ transport.body.valid_json
               /\ ClientVerdict # "Ok")
                => (result = "FailedVerification" /\ ok_beacon = NoBeacon)

\* C21 witness: round 2 was asked of randomness, the server answered with a
\* beacon of round 4 signed by another key, and the answer was
\* FailedVerification, not the InvalidBeacon of the round comparison.
C21_Witness ==
    /\ Fetched
    /\ op = "randomness"
    /\ round_number = 2
    /\ transport.status = "OK"
    /\ transport.body.valid_json
    /\ transport.body.fields
         = GenuineBeacon(chain_info.scheme_id, 2, <<1>>, 4)
    /\ result = "FailedVerification"

\* the time is within the first period after genesis
FirstPeriod ==
    /\ time >= 0
    /\ chain_info.period_seconds > 0
    /\ UnixSeconds > chain_info.genesis_time
    /\ UnixSeconds - chain_info.genesis_time < chain_info.period_seconds

\* C22: every round that round_for_time returns is at least 1 and below
\* 2^WordBits, so expected_round - 1 in latest_randomness does not wrap
\* around: within the first period after genesis the expected round is 1,
\* the bound of the comparison is 0, and every fetched and verified beacon
\* is returned, whatever its round.
C22_RoundAtLeastOne ==
    /\ (pc = "done" /\ op = "round_for_time" /\ result = "Ok")
          => (ok_round >= 1 /\ ok_round < U64Mod)
    /\ (pc = "done" /\ op = "latest_randomness" /\ fetches = 1)
          => LET expected_round == round_for_time(chain_info, time)
                 r == transport.body.fields.round_number
             IN  /\ expected_round.tag = "Ok"
                 /\ expected_round.val >= 1
                 /\ expected_round.val < U64Mod
                 /\ (FirstPeriod /\ FetchedGenuine(r))
                      => (result = "Ok" /\ ok_beacon.round_number = r)

\* C22 witness: one second after genesis, with a period of two seconds,
\* latest_randomness fetched the genuine beacon of round 0 and returned it.
C22_Witness ==
    /\ pc = "done" /\ op = "latest_randomness"
    /\ chain_info.period_seconds = 2
    /\ UnixSeconds = chain_info.genesis_time + 1
    /\ FirstPeriod
    /\ FetchedGenuine(0)
    /\ result = "Ok"
    /\ ok_beacon.round_number = 0

====
